---- MODULE Spec2Model ----
(***************************************************************************)
(* A model of the rust-cgi crate (src/src/lib.rs): the process-wide load   *)
(* guard of Request::load, the Request value with its composed URL, and    *)
(* the Builder with every one of its setters.                              *)
(*                                                                         *)
(* Strings that the url crate inspects (host, path, query) are sequences   *)
(* of one-character strings; a percent escape is one token ("%3C").        *)
(* Opaque strings (versions, user, ident, auth) are TLA+ strings.          *)
(* Option<T> is a sequence of length at most one.                          *)
(***************************************************************************)
EXTENDS Integers, Sequences, FiniteSets, TLC

VARIABLES
    env,             \* what the process was started with: args()[0] and its canonical path
    request_loaded,  \* the static AtomicBool of Request::load
    pc,              \* per thread: where it is inside Request::load
    old,             \* per thread: the value its swap returned
    outcome,         \* per thread: how its last load() call ended
    passed,          \* number of load() calls that got past the guard
    builder,         \* Option<Builder>: the Builder being chained
    built,           \* Option<Request>: the Request build() returned
    new_result,      \* how the last Builder::new() ended
    trace,           \* the Builder calls made on the current Builder, in order
    media,           \* Option: the media type descriptor handed to the classifier
    body,            \* the byte payload handed to the classifier
    classified       \* Option: what the classifier returned

vars == <<env, request_loaded, pc, old, outcome, passed, builder, built, new_result, trace,
          media, body, classified>>

loadVars == <<request_loaded, pc, old, outcome, passed>>
builderVars == <<builder, built, new_result, trace>>
classifyVars == <<media, body, classified>>

----------------------------------------------------------------------------
(* Bounds of the model. *)

\* Number of threads calling Request::load.
NumThreads == 2

\* Longest chain of setter calls on one Builder.
MaxCalls == 2

\* Longest body handed to the classifier, in tokens.
MaxBody == 3

Threads == 1..NumThreads

----------------------------------------------------------------------------
(* Option<T>. *)

None == <<>>
Some(x) == <<x>>
IsSome(o) == Len(o) = 1
Unwrap(o) == o[1]

----------------------------------------------------------------------------
(* enum Method. *)

Method == {"Options", "Get", "Head", "Post", "Put", "Delete", "Trace", "Connect"}

----------------------------------------------------------------------------
(* The url crate, as far as the Builder uses it.  A Url is a record of its *)
(* components; every setter returns a Result that the Builder discards, so *)
(* a failing setter leaves the Url as it was.                              *)

\* Url::as_str: the serialization of the components.
as_str(url) ==
    <<url.scheme, "://">>
        \o (IF IsSome(url.host) THEN Unwrap(url.host) ELSE <<>>)
        \o (IF IsSome(url.port) THEN <<":", ToString(Unwrap(url.port))>> ELSE <<>>)
        \o url.path
        \o (IF IsSome(url.query) THEN <<"?">> \o Unwrap(url.query) ELSE <<>>)

\* The port a scheme implies; a port equal to it is not stored.
default_port(scheme) == IF scheme = "http" THEN Some(80) ELSE None

\* Url::port_or_known_default.
port_or_known_default(url) ==
    IF IsSome(url.port) THEN url.port ELSE default_port(url.scheme)

\* Characters a host may not contain.
ForbiddenHostChars == {"/", "?", "#", "@", ":"}

to_lowercase(c) == IF c = "H" THEN "h" ELSE IF c = "G" THEN "g" ELSE c

\* Host::parse: Err (None) on a forbidden character, else the lower-cased domain.
host_parse(h) ==
    IF \E k \in 1..Len(h) : h[k] \in ForbiddenHostChars
    THEN None
    ELSE Some([k \in 1..Len(h) |-> to_lowercase(h[k])])

\* Url::set_host(Some(h)): EmptyHost on "" (file and http are special schemes),
\* a parse error on a forbidden character; the port is kept.
set_host(url, h) ==
    IF h = <<>> THEN url
    ELSE IF ~IsSome(host_parse(h)) THEN url
    ELSE [url EXCEPT !.host = host_parse(h)]

\* Url::set_scheme(s) for a special scheme s: refused on a Url without a host.
set_scheme(url, s) ==
    IF ~IsSome(url.host) THEN url ELSE [url EXCEPT !.scheme = s]

\* Url::set_port(Some(p)): refused without a host or on a file Url; the
\* scheme's default port is stored as no port.
set_port(url, p) ==
    IF ~IsSome(url.host) \/ url.scheme = "file" THEN url
    ELSE [url EXCEPT !.port = IF Some(p) = default_port(url.scheme) THEN None ELSE Some(p)]

\* Percent-encoding of one character of a path or of a query.
percent_encode(c) == IF c = "<" THEN "%3C" ELSE c

utf8_percent_encode(s) == [k \in 1..Len(s) |-> percent_encode(s[k])]

\* The segments of a path: the pieces between "/".
RECURSIVE split_segments(_)
split_segments(s) ==
    IF s = <<>> THEN << <<>> >>
    ELSE LET rest == split_segments(Tail(s)) IN
         IF Head(s) = "/" THEN << <<>> >> \o rest
         ELSE << <<Head(s)>> \o Head(rest) >> \o Tail(rest)

\* Parser::parse_path: "." segments are dropped, ".." removes the segment
\* before it, the last such segment leaves an empty one, the rest is encoded.
RECURSIVE parse_path(_, _)
parse_path(segs, out) ==
    IF segs = <<>> THEN out
    ELSE LET seg == Head(segs)
             last == Len(segs) = 1
             popped == IF out = <<>> THEN out ELSE SubSeq(out, 1, Len(out) - 1)
         IN  IF seg = <<".", ".">>
             THEN parse_path(Tail(segs), IF last THEN Append(popped, <<>>) ELSE popped)
             ELSE IF seg = <<".">>
             THEN parse_path(Tail(segs), IF last THEN Append(out, <<>>) ELSE out)
             ELSE parse_path(Tail(segs), Append(out, utf8_percent_encode(seg)))

RECURSIVE join_segments(_)
join_segments(segs) ==
    IF segs = <<>> THEN <<>>
    ELSE <<"/">> \o Head(segs) \o join_segments(Tail(segs))

\* Parser::parse_path_start: one leading "/" of the input is consumed and
\* the path always starts with "/".
parse_path_start(p) ==
    LET input == IF p /= <<>> /\ Head(p) = "/" THEN Tail(p) ELSE p
    IN  join_segments(parse_path(split_segments(input), <<>>))

\* Url::set_path.
set_path(url, p) == [url EXCEPT !.path = parse_path_start(p)]

\* Url::set_query(Some(q)).
set_query(url, q) == [url EXCEPT !.query = Some(utf8_percent_encode(q))]

\* Url::from_file_path on an absolute, canonical path.
from_file_path(p) ==
    [scheme |-> "file", host |-> None, port |-> None,
     path |-> utf8_percent_encode(p), query |-> None]

----------------------------------------------------------------------------
(* The process environment: args().next() and what canonicalize makes of   *)
(* it (None when the name does not resolve from the working directory).    *)

Environments ==
    { [arg0 |-> <<"/", "d", "/", "a">>, canonical |-> Some(<<"/", "d", "/", "a">>)],
      [arg0 |-> <<"a">>,               canonical |-> Some(<<"/", "d", "/", "a">>)],
      [arg0 |-> <<"a">>,               canonical |-> None] }

\* script_url(): None stands for the panic of expect().
script_url(e) ==
    IF IsSome(e.canonical) THEN Some(from_file_path(Unwrap(e.canonical))) ELSE None

----------------------------------------------------------------------------
(* Request. *)

\* Request::url.
url(req) == req.full_url

\* Request::update_path.
update_path(req) ==
    LET composite_path ==
            req.script \o (IF IsSome(req.path_info) THEN Unwrap(req.path_info) ELSE <<>>)
    IN  [req EXCEPT !.full_url = set_path(req.full_url, composite_path)]

\* Default for Request (the environment resolves).
default(e) ==
    [http_version    |-> "HTTP/1.0",
     cgi_version     |-> "CGI/1.1",
     method          |-> "Get",
     full_url        |-> Unwrap(script_url(e)),
     path_info       |-> None,
     path_translated |-> None,
     script          |-> e.arg0,
     user            |-> None,
     ident           |-> None,
     auth            |-> None,
     client          |-> <<127, 0, 0, 1>>,
     content         |-> None]

----------------------------------------------------------------------------
(* Builder: a record holding its private Request.  Every method takes the  *)
(* Builder by value and returns the updated Builder.                       *)

\* Builder::new (the environment resolves).
new(e) == [request |-> default(e)]

\* Builder::build.
build(self) == self.request

\* Builder::http_version.
http_version(self, version) == [request |-> [self.request EXCEPT !.http_version = version]]

\* Builder::cgi_version.
cgi_version(self, version) == [request |-> [self.request EXCEPT !.cgi_version = version]]

\* A method() that sets the method and forgets to clear the content.
method_keeping_content(self, m) ==
    [request |-> [self.request EXCEPT !.method = m]]

\* Builder::method.
method(self, m) ==
    [request |-> [self.request EXCEPT
        !.method = m,
        !.content = IF ~(m = "Put" \/ m = "Post") THEN None ELSE @]]

\* A get() that clears the content, as method(Get) does.
get_clearing_content(self) ==
    [request |-> [self.request EXCEPT !.method = "Get", !.content = None]]

\* Builder::get.
get(self) == [request |-> [self.request EXCEPT !.method = "Get"]]

\* A put() that keeps the previous content when it is given None.
put_keeping_content(self, content) ==
    [request |-> [self.request EXCEPT
        !.method = "Put",
        !.content = IF content = None THEN @ ELSE content]]

\* Builder::put.
put(self, content) ==
    [request |-> [self.request EXCEPT !.method = "Put", !.content = content]]

\* Builder::post.
post(self, content) ==
    [request |-> [self.request EXCEPT !.method = "Post", !.content = content]]

\* Builder::host.
host(self, h) ==
    [request |-> [self.request EXCEPT !.full_url = set_host(@, h)]]

\* A port() that sets the port and leaves the scheme alone.
port_without_scheme(self, p) ==
    [request |-> [self.request EXCEPT !.full_url = set_port(@, p)]]

\* Builder::port.
port(self, p) ==
    [request |-> [self.request EXCEPT !.full_url = set_port(set_scheme(@, "http"), p)]]

\* A script() that also drops the translated path.
script_resetting_translation(self, s) ==
    [request |-> update_path([self.request EXCEPT !.script = s, !.path_translated = None])]

\* Builder::script.
script(self, s) ==
    [request |-> update_path([self.request EXCEPT !.script = s])]

\* Builder::path_info.
path_info(self, base, info) ==
    LET translated == base \o info
    IN  [request |-> update_path([self.request EXCEPT
            !.path_info = Some(info),
            !.path_translated = Some(translated)])]

\* A user() that leaves a previously set ident in place.
user_keeping_ident(self, name, auth_method) ==
    [request |-> [self.request EXCEPT !.user = Some(name), !.auth = auth_method]]

\* Builder::user.
user(self, name, auth_method) ==
    [request |-> [self.request EXCEPT
        !.user = Some(name), !.auth = auth_method, !.ident = None]]

\* An ident() that only overwrites auth when it is given a method.
ident_keeping_auth(self, id, auth_method) ==
    [request |-> [self.request EXCEPT
        !.ident = Some(id),
        !.auth = IF auth_method = None THEN @ ELSE auth_method,
        !.user = None]]

\* Builder::ident.
ident(self, id, auth_method) ==
    [request |-> [self.request EXCEPT
        !.ident = Some(id), !.auth = auth_method, !.user = None]]

\* Builder::client.
client(self, addr) == [request |-> [self.request EXCEPT !.client = addr]]

\* Builder::query.
query(self, q) ==
    [request |-> [self.request EXCEPT !.full_url = set_query(@, q)]]

----------------------------------------------------------------------------
(* The arguments the model passes to the Builder's setters. *)

VersionInputs == {"HTTP/1.1"}
CgiVersionInputs == {"CGI/1.2"}
ContentInputs == {None, Some("content")}
HostInputs == {<<"h">>, <<"H">>, <<>>, <<"/">>}
PortInputs == {80, 81}
ScriptInputs == {<<"/", "s">>, <<"s">>, <<"/", "<">>}
BaseInputs == {<<"/", "b">>}
InfoInputs == {<<"/", "i">>, <<"/", ".", ".">>}
NameInputs == {"name"}
AuthInputs == {None, Some("Basic")}
ClientInputs == {<<10, 0, 0, 1>>}
QueryInputs == {<<"q">>, <<"<">>}

----------------------------------------------------------------------------
(* Request::load: the guard is swapped in one atomic step; what the call   *)
(* returns is decided afterwards from the value the swap gave back.        *)

\* A swap that reads the flag and does not store the new value.
swap_without_store(cur, val) == [prev |-> cur, now |-> cur]

\* AtomicBool::swap: the value stored before, and the value stored after.
swap(cur, val) == [prev |-> cur, now |-> val]

\* What load() does with the value its swap returned: the early return, or
\* falling through to unimplemented!(), which panics.
load_result(prev) == IF prev THEN "Err(MultipleLoad)" ELSE "panic(unimplemented)"

Init ==
    /\ env \in Environments
    /\ request_loaded = FALSE
    /\ pc = [t \in Threads |-> "idle"]
    /\ old = [t \in Threads |-> FALSE]
    /\ outcome = [t \in Threads |-> "none"]
    /\ passed = 0
    /\ builder = None
    /\ built = None
    /\ new_result = "none"
    /\ trace = <<>>
    /\ media = None
    /\ body = <<>>
    /\ classified = None

\* A thread enters load() and executes the swap.
LoadSwap(t) ==
    /\ pc[t] = "idle"
    /\ LET r == swap(request_loaded, TRUE) IN
        /\ request_loaded' = r.now
        /\ old' = [old EXCEPT ![t] = r.prev]
        /\ passed' = IF r.prev THEN passed ELSE passed + 1
    /\ pc' = [pc EXCEPT ![t] = "swapped"]
    /\ outcome' = [outcome EXCEPT ![t] = "none"]
    /\ UNCHANGED <<env, classifyVars, builderVars>>

\* A load() that releases the guard again when it does not produce a Request.
LoadReturn_releasing_guard(t) ==
    /\ pc[t] = "swapped"
    /\ outcome' = [outcome EXCEPT ![t] = load_result(old[t])]
    /\ pc' = [pc EXCEPT ![t] = "idle"]
    /\ request_loaded' = IF old[t] THEN request_loaded ELSE FALSE
    /\ UNCHANGED <<env, classifyVars, old, passed, builderVars>>

\* The thread leaves load(): Err(MultipleLoad), or the panic of unimplemented!().
LoadReturn(t) ==
    /\ pc[t] = "swapped"
    /\ outcome' = [outcome EXCEPT ![t] = load_result(old[t])]
    /\ pc' = [pc EXCEPT ![t] = "idle"]
    /\ UNCHANGED <<env, classifyVars, request_loaded, old, passed, builderVars>>

LoadNext == \E t \in Threads : LoadSwap(t) \/ LoadReturn(t)

----------------------------------------------------------------------------
(* The Builder's operations as steps.  The model follows one Builder and   *)
(* the Request built from it at a time; k bounds the chain of setters.     *)

\* A Builder::new() that goes through the load guard as load() does.
NewBuilder_through_guard ==
    /\ builder = None
    /\ built = None
    /\ ~request_loaded
    /\ request_loaded' = TRUE
    /\ IF IsSome(script_url(env))
       THEN builder' = Some(new(env)) /\ new_result' = "ok"
       ELSE builder' = None /\ new_result' = "panic"
    /\ trace' = <<>>
    /\ UNCHANGED <<env, classifyVars, pc, old, outcome, passed, built>>

\* Builder::new(): panics in script_url() when the script name does not resolve.
NewBuilder ==
    /\ builder = None
    /\ built = None
    /\ IF IsSome(script_url(env))
       THEN builder' = Some(new(env)) /\ new_result' = "ok"
       ELSE builder' = None /\ new_result' = "panic"
    /\ trace' = <<>>
    /\ UNCHANGED <<env, classifyVars, loadVars, built>>

\* One setter call on the current Builder, recorded in the trace.
Call(k, op, args, result) ==
    /\ IsSome(builder)
    /\ Len(trace) < k
    /\ builder' = Some(result)
    /\ trace' = Append(trace, [op |-> op, args |-> args])
    /\ UNCHANGED <<env, classifyVars, loadVars, built, new_result>>

DoHttpVersion(k) ==
    \E v \in VersionInputs : Call(k, "http_version", <<v>>, http_version(Unwrap(builder), v))
DoCgiVersion(k) ==
    \E v \in CgiVersionInputs : Call(k, "cgi_version", <<v>>, cgi_version(Unwrap(builder), v))
DoMethod(k) ==
    \E m \in Method : Call(k, "method", <<m>>, method(Unwrap(builder), m))
DoGet(k) ==
    Call(k, "get", <<>>, get(Unwrap(builder)))
DoPut(k) ==
    \E c \in ContentInputs : Call(k, "put", <<c>>, put(Unwrap(builder), c))
DoPost(k) ==
    \E c \in ContentInputs : Call(k, "post", <<c>>, post(Unwrap(builder), c))
DoHost(k) ==
    \E h \in HostInputs : Call(k, "host", <<h>>, host(Unwrap(builder), h))
DoPort(k) ==
    \E p \in PortInputs : Call(k, "port", <<p>>, port(Unwrap(builder), p))
DoScript(k) ==
    \E s \in ScriptInputs : Call(k, "script", <<s>>, script(Unwrap(builder), s))
DoPathInfo(k) ==
    \E b \in BaseInputs, i \in InfoInputs :
        Call(k, "path_info", <<b, i>>, path_info(Unwrap(builder), b, i))
DoUser(k) ==
    \E u \in NameInputs, a \in AuthInputs :
        Call(k, "user", <<u, a>>, user(Unwrap(builder), u, a))
DoIdent(k) ==
    \E i \in NameInputs, a \in AuthInputs :
        Call(k, "ident", <<i, a>>, ident(Unwrap(builder), i, a))
DoClient(k) ==
    \E c \in ClientInputs : Call(k, "client", <<c>>, client(Unwrap(builder), c))
DoQuery(k) ==
    \E q \in QueryInputs : Call(k, "query", <<q>>, query(Unwrap(builder), q))

\* Builder::build(): the Builder is consumed.
Build ==
    /\ IsSome(builder)
    /\ built' = Some(build(Unwrap(builder)))
    /\ builder' = None
    /\ UNCHANGED <<env, classifyVars, loadVars, new_result, trace>>

\* The built Request goes out of scope.
Drop ==
    /\ IsSome(built)
    /\ built' = None
    /\ trace' = <<>>
    /\ new_result' = "none"
    /\ UNCHANGED <<env, classifyVars, loadVars, builder>>

BuilderNext(k) ==
    \/ NewBuilder
    \/ DoHttpVersion(k) \/ DoCgiVersion(k)
    \/ DoMethod(k) \/ DoGet(k) \/ DoPut(k) \/ DoPost(k)
    \/ DoHost(k) \/ DoPort(k) \/ DoScript(k) \/ DoPathInfo(k) \/ DoQuery(k)
    \/ DoUser(k) \/ DoIdent(k) \/ DoClient(k)
    \/ Build
    \/ Drop

\* Whether the setter op has not been called on the current Builder yet.
Fresh(op) == \A j \in 1..Len(trace) : trace[j].op /= op

\* The setters that touch the URL.
ChainOps == {"host", "port", "script", "path_info", "query"}

ChainNext ==
    \/ NewBuilder
    \/ Fresh("host") /\ DoHost(Cardinality(ChainOps))
    \/ Fresh("port") /\ DoPort(Cardinality(ChainOps))
    \/ Fresh("script") /\ DoScript(Cardinality(ChainOps))
    \/ Fresh("path_info") /\ DoPathInfo(Cardinality(ChainOps))
    \/ Fresh("query") /\ DoQuery(Cardinality(ChainOps))
    \/ Build
    \/ Drop

\* Setter chains that run beside load() are one call shorter.
LoadChain == MaxCalls - 1

Next == LoadNext \/ BuilderNext(LoadChain)

\* The whole program: threads calling load(), and a Builder.
Spec == Init /\ [][Next]_vars

\* The Builder alone, with the longer chains.
SpecBuilder == Init /\ [][BuilderNext(MaxCalls)]_vars

\* Each URL-affecting setter called at most once on a Builder, in any order.
SpecChain == Init /\ [][ChainNext]_vars

----------------------------------------------------------------------------
(* Content (src/src/content.rs) and the content classifier.  The crate     *)
(* declares the Content and Data types only; the classifier is modelled    *)
(* from the design's dispatch policy.  A body is a sequence of tokens: a   *)
(* text byte, a byte that is not valid text, the boundary delimiter, the   *)
(* closing delimiter, and the Content-Type header line of a part.          *)

\* An enum Data without the Blob variant.
Data_without_Blob == {"Form", "Json", "Xml", "Text", "Multipart"}

\* enum Data: the stored forms.
Data == {"Form", "Json", "Xml", "Text", "Multipart", "Blob"}

\* The error kinds of classification.
ClassifyError == {"MultipartBoundaryMissing"}

\* A media type descriptor.
Mime(type, subtype, boundary) == [type |-> type, subtype |-> subtype, boundary |-> boundary]

MediaInputs ==
    { Mime("application", "x-www-form-urlencoded", None),
      Mime("application", "json", None),
      Mime("application", "xml", None),
      Mime("text", "xml", None),
      Mime("multipart", "form-data", Some("B")),
      Mime("multipart", "form-data", None),
      Mime("text", "plain", None),
      Mime("application", "octet-stream", None) }

\* The Content-Type header lines a part may start with, and what they declare.
PartHeaders == {"Content-Type: application/json", "Content-Type: multipart/mixed"}

header_media(line) ==
    IF line = "Content-Type: application/json"
    THEN Mime("application", "json", None)
    ELSE Mime("multipart", "mixed", None)

BodyTokens == {"a", "xFF", "--B", "--B--"} \cup PartHeaders

\* Every body of at most n tokens.
Bodies(n) == UNION {[1..k -> BodyTokens] : k \in 0..n}

\* Decoding the body as text: None when a byte is not valid in the charset.
decode_text(bytes) ==
    IF \E k \in 1..Len(bytes) : bytes[k] = "xFF" THEN None ELSE Some(bytes)

\* The delimiter and the closing delimiter of a boundary.
delimiter(boundary) == IF boundary = "B" THEN "--B" ELSE "--"
close_delimiter(boundary) == IF boundary = "B" THEN "--B--" ELSE "----"

\* The parts of a multipart body: what precedes the first delimiter is
\* skipped, each delimiter ends a part and starts the next, the closing
\* delimiter (or the end of the body) ends the last part.
RECURSIVE split_parts(_, _, _, _, _)
split_parts(rest, boundary, started, current, parts) ==
    IF rest = <<>> THEN (IF started THEN Append(parts, current) ELSE parts)
    ELSE IF Head(rest) = close_delimiter(boundary)
    THEN (IF started THEN Append(parts, current) ELSE parts)
    ELSE IF Head(rest) = delimiter(boundary)
    THEN split_parts(Tail(rest), boundary, TRUE, <<>>,
                     IF started THEN Append(parts, current) ELSE parts)
    ELSE split_parts(Tail(rest), boundary, started,
                     IF started THEN Append(current, Head(rest)) ELSE current, parts)

\* A part's own media type (plain text when it has no header) and its body.
part_media(part) ==
    IF part /= <<>> /\ Head(part) \in PartHeaders
    THEN header_media(Head(part))
    ELSE Mime("text", "plain", None)

part_body(part) ==
    IF part /= <<>> /\ Head(part) \in PartHeaders THEN Tail(part) ELSE part

Ok(content) == [ok |-> TRUE, content |-> content]
Err(error) == [ok |-> FALSE, error |-> error]

\* A textual variant, or Blob with the raw bytes when the body does not decode.
text_or_blob(m, variant, bytes) ==
    IF IsSome(decode_text(bytes))
    THEN Ok([mime |-> m, data |-> [tag |-> variant, value |-> Unwrap(decode_text(bytes))]])
    ELSE Ok([mime |-> m, data |-> [tag |-> "Blob", value |-> bytes]])

\* classify: the dispatch policy, first match wins.
RECURSIVE classify(_, _)
classify(m, bytes) ==
    IF m.type = "application" /\ m.subtype = "x-www-form-urlencoded"
    THEN text_or_blob(m, "Form", bytes)
    ELSE IF m.subtype = "json"
    THEN text_or_blob(m, "Json", bytes)
    ELSE IF m.subtype = "xml"
    THEN text_or_blob(m, "Xml", bytes)
    ELSE IF m.type = "multipart"
    THEN IF ~IsSome(m.boundary)
         THEN Err("MultipartBoundaryMissing")
         ELSE LET parts == split_parts(bytes, Unwrap(m.boundary), FALSE, <<>>, <<>>)
                  results == [k \in 1..Len(parts) |->
                                 classify(part_media(parts[k]), part_body(parts[k]))]
              IN  IF \E k \in 1..Len(parts) : ~results[k].ok
                  THEN Err("MultipartBoundaryMissing")
                  ELSE Ok([mime |-> m,
                           data |-> [tag |-> "Multipart",
                                     value |-> [k \in 1..Len(parts) |->
                                                   results[k].content.data]]])
    ELSE IF m.type = "text"
    THEN text_or_blob(m, "Text", bytes)
    ELSE Ok([mime |-> m, data |-> [tag |-> "Blob", value |-> bytes]])

\* A media type and a body are handed to the classifier.
InitClassify ==
    /\ env \in Environments
    /\ request_loaded = FALSE
    /\ pc = [t \in Threads |-> "idle"]
    /\ old = [t \in Threads |-> FALSE]
    /\ outcome = [t \in Threads |-> "none"]
    /\ passed = 0
    /\ builder = None
    /\ built = None
    /\ new_result = "none"
    /\ trace = <<>>
    /\ media \in {Some(m) : m \in MediaInputs}
    /\ body \in Bodies(MaxBody)
    /\ classified = None

\* The classifier runs on its input.
Classify ==
    /\ IsSome(media)
    /\ classified = None
    /\ classified' = Some(classify(Unwrap(media), body))
    /\ UNCHANGED <<env, loadVars, builderVars, media, body>>

\* The classifier alone, over every media type and body of the model.
SpecClassify == InitClassify /\ [][Classify]_vars

----------------------------------------------------------------------------
(* Helpers of the properties below. *)

\* The Request the model currently follows: the Builder's, or the built one.
HasRequest == IsSome(builder) \/ IsSome(built)
TheRequest == IF IsSome(builder) THEN Unwrap(builder).request ELSE Unwrap(built)

\* This step is a setter call named op (the trace grows by that call).
Calls(op) ==
    /\ IsSome(builder)
    /\ IsSome(builder')
    /\ Len(trace') = Len(trace) + 1
    /\ trace'[Len(trace')].op = op

\* The position of the latest call in the trace whose name is in ops, or 0.
LastIndexOf(ops) ==
    LET hits == {j \in 1..Len(trace) : trace[j].op \in ops}
    IN  IF hits = {} THEN 0 ELSE CHOOSE j \in hits : \A i \in hits : i <= j

----------------------------------------------------------------------------
(* Request::load and the load guard. *)

\* C1: over every interleaving of load() calls by any of the threads, at most
\* one call gets past the guard; a call whose swap finds the guard set returns
\* Err(MultipleLoad) and no other call does; the guard, once set, stays set,
\* so every call that starts after it is set finds it set.
C1_OnlyOneLoadPasses ==
    [][ /\ passed' <= 1
        /\ Cardinality({t \in Threads : pc'[t] = "swapped" /\ ~old'[t]}
                       \cup {t \in Threads : outcome'[t] = "panic(unimplemented)"}) <= 1
        /\ request_loaded => request_loaded'
        /\ \A t \in Threads :
            /\ (pc[t] = "idle" /\ pc'[t] = "swapped" /\ request_loaded) => old'[t]
            /\ (pc[t] = "idle" /\ pc'[t] = "swapped" /\ passed = 1) => old'[t]
            /\ (pc[t] = "swapped" /\ pc'[t] = "idle") =>
                    (old[t] <=> outcome'[t] = "Err(MultipleLoad)")
      ]_vars

\* Witness of C1: one thread got Err(MultipleLoad) while the call that passed
\* the guard is still inside load().
C1_Witness ==
    \E t1, t2 \in Threads :
        /\ t1 /= t2
        /\ pc[t1] = "swapped" /\ ~old[t1]
        /\ pc[t2] = "idle" /\ outcome[t2] = "Err(MultipleLoad)"
        /\ passed = 1

\* C2: a load() call that found the guard unloaded returns Ok with a populated
\* Request, not an error and not a panic.
C2_FirstLoadSucceeds ==
    \A t \in Threads :
        (pc[t] = "idle" /\ outcome[t] /= "none" /\ ~old[t]) => outcome[t] = "Ok(Request)"

----------------------------------------------------------------------------
(* The Builder's fields. *)

\* C3: in every Builder state reachable from Builder::new() by any sequence of
\* Builder calls, and in every built Request, content is present only if the
\* method is Put or Post.
C3_ContentOnlyWithPutOrPost ==
    HasRequest =>
        (IsSome(TheRequest.content) => TheRequest.method \in {"Put", "Post"})

\* C4: method(m) sets the method to m; for m other than Put and Post the
\* content is absent afterwards whatever it was before, and for m Put or Post
\* the content is exactly what it was before the call.
C4_MethodSetsAndClears ==
    [][ Calls("method") =>
            LET m == trace'[Len(trace')].args[1]
                before == Unwrap(builder).request
                after == Unwrap(builder').request
            IN  /\ after.method = m
                /\ m \notin {"Put", "Post"} => after.content = None
                /\ m \in {"Put", "Post"} => after.content = before.content
      ]_vars

\* Witness of C4: content set by put() was cleared by a following method(Delete).
C4_Witness ==
    /\ IsSome(builder)
    /\ Len(trace) = 2
    /\ trace[1].op = "put" /\ IsSome(trace[1].args[1])
    /\ trace[2].op = "method" /\ trace[2].args[1] = "Delete"
    /\ TheRequest.method = "Delete"
    /\ TheRequest.content = None

\* C5: user and ident are never both present: the latest of the user/ident
\* calls decides which one is present (user() sets user and clears ident,
\* ident() sets ident and clears user), and without such a call both are
\* absent, whatever other Builder calls were made.
C5_UserIdentExclusive ==
    HasRequest =>
        LET j == LastIndexOf({"user", "ident"})
            r == TheRequest
        IN  /\ ~(IsSome(r.user) /\ IsSome(r.ident))
            /\ j = 0 => (r.user = None /\ r.ident = None)
            /\ (j /= 0 /\ trace[j].op = "user") =>
                    (r.user = Some(trace[j].args[1]) /\ r.ident = None)
            /\ (j /= 0 /\ trace[j].op = "ident") =>
                    (r.ident = Some(trace[j].args[1]) /\ r.user = None)

\* Witness of C5: ident() was called on a Builder whose user was set.
C5_Witness ==
    /\ IsSome(builder)
    /\ Len(trace) = 2
    /\ trace[1].op = "user"
    /\ trace[2].op = "ident"
    /\ TheRequest.user = None
    /\ IsSome(TheRequest.ident)

----------------------------------------------------------------------------
(* The composed URL. *)

\* C6: for every Builder, after any sequence of calls (the empty one
\* included), the built Request's URL path equals its script followed by its
\* path_info (nothing when path_info is absent).
C6_PathIsScriptThenPathInfo ==
    IsSome(built) =>
        LET r == Unwrap(built)
        IN  url(r).path =
                r.script \o (IF IsSome(r.path_info) THEN Unwrap(r.path_info) ELSE <<>>)

\* The URL-affecting setters were called once each in the order
\* host, port, script, path_info, query.
ChainInOrder ==
    /\ Len(trace) = 5
    /\ trace[1].op = "host"
    /\ trace[2].op = "port"
    /\ trace[3].op = "script"
    /\ trace[4].op = "path_info"
    /\ trace[5].op = "query"

\* "http://" + h + ":" + p + s + i + "?" + q
ExpectedUrl(h, p, s, i, q) ==
    <<"http", "://">> \o h \o <<":", ToString(p)>> \o s \o i \o <<"?">> \o q

LowerLetters ==
    {"a", "b", "c", "d", "e", "f", "g", "h", "i", "j", "k", "l", "m",
     "n", "o", "p", "q", "r", "s", "t", "u", "v", "w", "x", "y", "z"}

\* A non-empty host name of lower-case letters.
PlainHost(h) == h /= <<>> /\ \A k \in 1..Len(h) : h[k] \in LowerLetters

\* A path that starts with "/", is made of letters, "." and "/", and has no
\* "." or ".." segment.
PlainPath(p) ==
    /\ p /= <<>>
    /\ Head(p) = "/"
    /\ \A k \in 1..Len(p) : p[k] \in LowerLetters \cup {"/", "."}
    /\ LET segs == split_segments(p)
       IN  \A k \in 1..Len(segs) : segs[k] \notin {<<".">>, <<".", ".">>}

\* A query made of letters only.
PlainQuery(q) == \A k \in 1..Len(q) : q[k] \in LowerLetters

C9_PortForcesHttpAndPort ==
    [][ Calls("port") =>
            LET p == trace'[Len(trace')].args[1]
                before == Unwrap(builder).request
                after == Unwrap(builder').request
            IN  /\ url(after).scheme = "http"
                /\ port_or_known_default(url(after)) = Some(p)
                /\ url(after).host = url(before).host
                /\ url(after).path = url(before).path
                /\ url(after).query = url(before).query
                /\ after.script = before.script
                /\ after.path_info = before.path_info
                /\ after.path_translated = before.path_translated
      ]_vars

\* C10: path_info and path_translated are what the latest path_info(base,
\* info) call made them, info and base followed by info, whatever calls
\* (script, host, port, query or any other) came after it; without a
\* path_info call both are absent.
C10_PathInfoIsIndependentStorage ==
    HasRequest =>
        LET j == LastIndexOf({"path_info"})
            r == TheRequest
        IN  /\ j = 0 => (r.path_info = None /\ r.path_translated = None)
            /\ j /= 0 =>
                /\ r.path_info = Some(trace[j].args[2])
                /\ r.path_translated = Some(trace[j].args[1] \o trace[j].args[2])

\* Witness of C10: script() was called after path_info() and changed the URL,
\* and path_info and path_translated are still those of the path_info call.
C10_Witness ==
    /\ IsSome(builder)
    /\ Len(trace) = 2
    /\ trace[1].op = "path_info"
    /\ trace[1].args = << <<"/", "b">>, <<"/", "i">> >>
    /\ trace[2].op = "script"
    /\ trace[2].args[1] = <<"/", "s">>
    /\ url(TheRequest).path = <<"/", "s", "/", "i">>
    /\ TheRequest.path_info = Some(<<"/", "i">>)
    /\ TheRequest.path_translated = Some(<<"/", "b", "/", "i">>)

----------------------------------------------------------------------------
(* The Builder and the load guard. *)

\* This step is a Builder operation: new, a setter, build, or the drop.
BuilderStep == builderVars' /= builderVars

\* This step is a call of Builder::new().
NewStep == builder = None /\ built = None /\ BuilderStep

\* What load() does, seen from outside: each swap reads and sets only the
\* guard, and each return is decided by what the swap read.
LoadReadsOnlyGuard ==
    \A t \in Threads :
        /\ (pc[t] = "idle" /\ pc'[t] = "swapped") =>
                (old'[t] = request_loaded /\ request_loaded' /\ UNCHANGED builderVars)
        /\ (pc[t] = "swapped" /\ pc'[t] = "idle") =>
                (outcome'[t] = (IF old[t] THEN "Err(MultipleLoad)" ELSE "panic(unimplemented)")
                 /\ UNCHANGED builderVars)

----------------------------------------------------------------------------
(* put, post, get and the auth field. *)

\* C11: put(c) results in method Put and content c, post(c) in method Post
\* and content c, for every c, None included: the previous content is
\* replaced, whatever the method and the content were before.
C11_PutPostSetMethodAndContent ==
    [][ /\ Calls("put") =>
            LET after == Unwrap(builder').request
            IN  after.method = "Put" /\ after.content = trace'[Len(trace')].args[1]
        /\ Calls("post") =>
            LET after == Unwrap(builder').request
            IN  after.method = "Post" /\ after.content = trace'[Len(trace')].args[1]
      ]_vars

\* Witness of C11: put(None) on a Builder whose content was set by post().
C11_Witness ==
    /\ IsSome(builder)
    /\ Len(trace) = 2
    /\ trace[1].op = "post" /\ IsSome(trace[1].args[1])
    /\ trace[2].op = "put" /\ trace[2].args[1] = None
    /\ TheRequest.method = "Put"
    /\ TheRequest.content = None

\* C13: auth is the method argument of the latest user() or ident() call,
\* whichever of the two it was (None clears an auth set by an earlier call),
\* and without such a call it is absent, whatever other calls were made.
C13_AuthFollowsLatestUserOrIdent ==
    HasRequest =>
        LET j == LastIndexOf({"user", "ident"})
        IN  /\ j = 0 => TheRequest.auth = None
            /\ j /= 0 => TheRequest.auth = trace[j].args[2]

\* Witness of C13: ident(i, None) cleared the auth set by user(u, Some(m)).
C13_Witness ==
    /\ IsSome(builder)
    /\ Len(trace) = 2
    /\ trace[1].op = "user" /\ IsSome(trace[1].args[2])
    /\ trace[2].op = "ident" /\ trace[2].args[2] = None
    /\ IsSome(TheRequest.ident)
    /\ TheRequest.auth = None

----------------------------------------------------------------------------
(* The guard and the end of the first load(). *)

----------------------------------------------------------------------------
(* The order of the URL-affecting setters. *)

\* The arguments of the call named op in the trace.
ArgsOf(op) == trace[CHOOSE j \in 1..Len(trace) : trace[j].op = op].args

\* What the claim compares: url(), script, path_info and path_translated.
UrlView(r) == <<as_str(url(r)), r.script, r.path_info, r.path_translated>>

\* The Request built by host, port, script, path_info, query in this order.
BuiltInOrder(h, p, s, b, i, q) ==
    build(query(path_info(script(port(host(new(env), h), p), s), b, i), q))

\* C16: host(h), port(p), script(s), path_info(b, i) and query(q), applied
\* once each to a fresh Builder in any order, yield the same url(), script,
\* path_info and path_translated as in the order host, port, script,
\* path_info, query.
C16_UrlSettersCommute ==
    (IsSome(built) /\ Len(trace) = Cardinality(ChainOps)) =>
        UrlView(Unwrap(built)) =
            UrlView(BuiltInOrder(ArgsOf("host")[1], ArgsOf("port")[1], ArgsOf("script")[1],
                                 ArgsOf("path_info")[1], ArgsOf("path_info")[2],
                                 ArgsOf("query")[1]))

\* A value of enum Data: a variant of the enum with its payload, the parts of
\* a Multipart being values of Data themselves.
RECURSIVE IsData(_)
IsData(d) ==
    /\ d.tag \in Data
    /\ IF d.tag = "Multipart"
       THEN \A k \in 1..Len(d.value) : IsData(d.value[k])
       ELSE d.value \in Seq(BodyTokens)

\* The body holds a part that declares a multipart type without a boundary:
\* the header line follows a delimiter that no closing delimiter precedes.
PartWithoutBoundary(bytes) ==
    \E k \in 2..Len(bytes) :
        /\ bytes[k] = "Content-Type: multipart/mixed"
        /\ bytes[k - 1] = "--B"
        /\ \A j \in 1..(k - 1) : bytes[j] /= "--B--"

BoundaryMissing(m, bytes) ==
    m.type = "multipart" /\ (m.boundary = None \/ PartWithoutBoundary(bytes))

====
